---- MODULE Spec2Model ----
(***************************************************************************)
(* Model of the Nexalyze audit pipeline:                                   *)
(*   src/src/app/api/audit/route.ts     POST /api/audit and its helpers    *)
(*   src/src/modules/Analysis/index.tsx score classification helpers       *)
(*                                                                         *)
(* JavaScript values are tagged records so that values of different types  *)
(* can be compared: undefined, null, numbers, booleans, text and character *)
(* strings.  JavaScript objects are records whose DOMAIN is the set of     *)
(* keys that are present; an array is [items |-> the sequence].            *)
(***************************************************************************)
EXTENDS Integers, Sequences, FiniteSets, TLC

VARIABLES
    pc,              \* position of the POST handler
    request,         \* the incoming request (its body)
    apiKey,          \* process.env.GOOGLE_PAGESPEED_API_KEY
    url,             \* the destructured `url` of the body
    auditCalls,      \* number of fetches issued to the audit service
    textgenCalls,    \* number of fetches issued to the text-generation service
    auditInFlight,   \* an audit fetch is awaiting its response
    textgenInFlight, \* a text-generation fetch is awaiting its response
    auditResponse,   \* what the audit service answered
    textgenResponse, \* what the text-generation service answered
    lighthouseResult,\* the LighthouseResult built by runPageSpeedInsights
    prompt,          \* the prompt sent to the text-generation service
    response,        \* the NextResponse returned by POST
    scoreCards,      \* the score cards rendered by the Analysis component
    inputUrl,        \* Analysis: the `url` state (the text of the input)
    loading,         \* Analysis: the `loading` state
    results,         \* Analysis: the `results` state
    error,           \* Analysis: the `error` state
    awaiting,        \* Analysis: the promise handleSubmit is suspended on
    fetched,         \* Analysis: the Response its fetch resolved with
    sections         \* the sections rendered by formatSuggestions

vars == <<pc, request, apiKey, url, auditCalls, textgenCalls, auditInFlight,
          textgenInFlight, auditResponse, textgenResponse, lighthouseResult,
          prompt, response, scoreCards, inputUrl, loading, results, error,
          awaiting, fetched, sections>>

componentVars == <<inputUrl, loading, results, error, awaiting, fetched>>

handlerVars == <<pc, request, apiKey, url, auditCalls, textgenCalls,
                 auditInFlight, textgenInFlight, auditResponse,
                 textgenResponse, lighthouseResult, prompt, response>>

----------------------------------------------------------------------------
(* Bounds of the model *)

\* longest `url` string enumerated
MaxUrlLen == 4
\* most entries of an enumerated audit map
MaxAudits == 15
\* most entries of an enumerated audit map that are no opportunity
MaxDefects == 3

----------------------------------------------------------------------------
(* JavaScript values *)

Undefined == [undef |-> TRUE]
Null == [null |-> TRUE]
Num(n) == [num |-> n]
Bool(b) == [bool |-> b]
Text(s) == [str |-> s]
Chars(s) == [chars |-> s]
\* a multi-line text: the result of splitting the string at "\n", so the
\* empty string is <<"">> and a text ending in "\n" has a last element ""
Lines(s) == [lines |-> s]

IsNullish(v) == v = Undefined \/ v = Null

\* ToBoolean: undefined, null, 0, false and the empty string are falsy
Truthy(v) ==
    /\ ~IsNullish(v)
    /\ ("num" \in DOMAIN v => v.num # 0)
    /\ ("bool" \in DOMAIN v => v.bool)
    /\ ("str" \in DOMAIN v => v.str # "")
    /\ ("chars" \in DOMAIN v => v.chars # <<>>)
    /\ ("lines" \in DOMAIN v => v.lines # <<"">>)

\* a || b
OrElse(a, b) == IF Truthy(a) THEN a ELSE b

\* o.key of an object that is not null or undefined
Get(o, key) == IF key \in DOMAIN o THEN o[key] ELSE Undefined

\* o?.key
OptGet(o, key) == IF IsNullish(o) THEN Undefined ELSE Get(o, key)

----------------------------------------------------------------------------
(* new URL(url): the WHATWG URL parser without a base URL, on strings over  *)
(* UrlAlphabet.  A string is a sequence of characters.                      *)

UrlAlphabet == {"w", "s", ":", "/", " "}

AsciiAlpha == {"a", "b", "c", "d", "e", "f", "g", "h", "i", "j", "k", "l", "m",
               "n", "o", "p", "q", "r", "s", "t", "u", "v", "w", "x", "y", "z"}
AsciiDigit == {"0", "1", "2", "3", "4", "5", "6", "7", "8", "9"}
SchemeChars == AsciiAlpha \cup AsciiDigit \cup {"+", "-", "."}
SpecialSchemes == {<<"w", "s">>, <<"w", "s", "s">>}
AuthorityEnd == {"/", "?", "#"}
ForbiddenHostChars == {" ", "<", ">", "[", "]", "^", "|", "@", "%"}

\* String(v) as the URL constructor applies it to its argument
UrlToString(v) ==
    IF "chars" \in DOMAIN v THEN v.chars
    ELSE IF "bool" \in DOMAIN v
         THEN (IF v.bool THEN <<"t", "r", "u", "e">>
                         ELSE <<"f", "a", "l", "s", "e">>)
    ELSE IF "num" \in DOMAIN v /\ v.num \in 0..9
         THEN <<CHOOSE d \in AsciiDigit : d = ToString(v.num)>>
    ELSE <<"n", "u", "l", "l">>

\* index of the first element of s at or after i that is in set C, or Len(s)+1
RECURSIVE FirstIn(_, _, _)
FirstIn(s, i, C) ==
    IF i > Len(s) THEN Len(s) + 1
    ELSE IF s[i] \in C THEN i
    ELSE FirstIn(s, i + 1, C)

\* index of the first element of s at or after i that is not in set C
RECURSIVE FirstNotIn(_, _, _)
FirstNotIn(s, i, C) ==
    IF i > Len(s) THEN Len(s) + 1
    ELSE IF s[i] \notin C THEN i
    ELSE FirstNotIn(s, i + 1, C)

RECURSIVE LastNotIn(_, _, _)
LastNotIn(s, i, C) ==
    IF i < 1 THEN 0
    ELSE IF s[i] \notin C THEN i
    ELSE LastNotIn(s, i - 1, C)

\* leading and trailing spaces are removed before parsing
UrlTrim(s) == SubSeq(s, FirstNotIn(s, 1, {" "}), LastNotIn(s, Len(s), {" "}))

\* host and port of an authority: the host must hold no forbidden character,
\* the port only digits; a special scheme needs a host, and a ":" needs one
AuthorityParses(auth, special) ==
    LET colon == FirstIn(auth, 1, {":"})
        host == SubSeq(auth, 1, colon - 1)
        port == SubSeq(auth, colon + 1, Len(auth))
    IN /\ (special \/ colon <= Len(auth)) => host # <<>>
       /\ \A i \in 1..Len(host) : host[i] \notin ForbiddenHostChars
       /\ \A i \in 1..Len(port) : port[i] \in AsciiDigit

\* TRUE iff new URL(s) returns, FALSE iff it throws
UrlParses(s) ==
    LET t == UrlTrim(s)
        colon == FirstNotIn(t, 1, SchemeChars)
        scheme == SubSeq(t, 1, colon - 1)
        rest == SubSeq(t, colon + 1, Len(t))
    IN /\ t # <<>>
       /\ t[1] \in AsciiAlpha
       /\ colon <= Len(t)
       /\ t[colon] = ":"
       /\ IF scheme \in SpecialSchemes
          THEN LET a == FirstNotIn(rest, 1, {"/"})
                   e == FirstIn(rest, a, AuthorityEnd)
               IN AuthorityParses(SubSeq(rest, a, e - 1), TRUE)
          ELSE IF Len(rest) >= 2 /\ rest[1] = "/" /\ rest[2] = "/"
               THEN LET e == FirstIn(rest, 3, AuthorityEnd)
                    IN AuthorityParses(SubSeq(rest, 3, e - 1), FALSE)
               ELSE TRUE

UrlStrings == UNION {[1..n -> UrlAlphabet] : n \in 0..MaxUrlLen}

----------------------------------------------------------------------------
(* Numbers.  A Lighthouse score is a fraction n / ScoreDen; a duration or  *)
(* layout-shift value is a fixed-point number n / Frac.                    *)

ScoreDen == 100
Frac == 2

\* Math.round of the fixed-point number v / Frac (halves round up)
MathRound(v) == (2 * v + Frac) \div (2 * Frac)

\* a < n for a JavaScript value a and a number n: null converts to 0,
\* undefined to NaN (every comparison with NaN is false)
JsLess(a, n) ==
    IF a = Null THEN 0 < n
    ELSE IF "num" \in DOMAIN a THEN a.num < n
    ELSE FALSE

\* a > n
JsGreater(a, n) ==
    IF a = Null THEN 0 > n
    ELSE IF "num" \in DOMAIN a THEN a.num > n
    ELSE FALSE

\* v || 0 for a numeric field
NumOrZero(v) == OrElse(v, Num(0)).num

\* v || "text" for a text field
TextOr(v, placeholder) == OrElse(v, Text(placeholder)).str

----------------------------------------------------------------------------
(* runPageSpeedInsights: extraction of the LighthouseResult from the JSON  *)
(* body of the audit service.  `audits` is an object; Object.entries       *)
(* yields its entries in the order of audits.entries.                      *)

\* .slice(0, 10)
MaxListed == 10

\* audits[key]: the audit stored under key, or undefined
AuditAt(audits, key) ==
    IF \E i \in 1..Len(audits.entries) : audits.entries[i].id = key
    THEN LET i == CHOOSE i \in 1..Len(audits.entries) :
                      audits.entries[i].id = key
         IN audits.entries[i].audit
    ELSE Undefined

\* Array.prototype.slice(0, n)
Slice0(s, n) == SubSeq(s, 1, IF Len(s) < n THEN Len(s) ELSE n)

\* audit.details?.type === "opportunity" && audit.numericValue > 0
IsOpportunity(e) ==
    /\ OptGet(Get(e.audit, "details"), "type") = Text("opportunity")
    /\ JsGreater(Get(e.audit, "numericValue"), 0)

\* audit.scoreDisplayMode === "binary" && audit.score < 1
IsDiagnostic(e) ==
    /\ Get(e.audit, "scoreDisplayMode") = Text("binary")
    /\ JsLess(Get(e.audit, "score"), ScoreDen)

OpportunityItem(e) ==
    [id |-> Text(e.id),
     title |-> Get(e.audit, "title"),
     description |-> Get(e.audit, "description"),
     savings |-> Get(e.audit, "numericValue")]

DiagnosticItem(e) ==
    [id |-> Text(e.id),
     title |-> Get(e.audit, "title"),
     description |-> Get(e.audit, "description"),
     displayValue |-> OrElse(Get(e.audit, "displayValue"), Text(""))]

MapOpportunity(s) == [i \in 1..Len(s) |-> OpportunityItem(s[i])]
MapDiagnostic(s) == [i \in 1..Len(s) |-> DiagnosticItem(s[i])]

\* the opportunities without the `.slice(0, 10)`
ExtractOpportunitiesUncapped(audits) ==
    [items |-> MapOpportunity(SelectSeq(audits.entries, IsOpportunity))]

ExtractOpportunities(audits) ==
    [items |-> Slice0(MapOpportunity(SelectSeq(audits.entries, IsOpportunity)),
                      MaxListed)]

ExtractDiagnostics(audits) ==
    [items |-> Slice0(MapDiagnostic(SelectSeq(audits.entries, IsDiagnostic)),
                      MaxListed)]

\* audits[key]?.numericValue || 0
MetricOf(audits, key) == NumOrZero(OptGet(AuditAt(audits, key), "numericValue"))

ExtractMetrics(audits) ==
    [firstContentfulPaint |-> MetricOf(audits, "first-contentful-paint"),
     largestContentfulPaint |-> MetricOf(audits, "largest-contentful-paint"),
     firstInputDelay |-> MetricOf(audits, "max-potential-fid"),
     cumulativeLayoutShift |-> MetricOf(audits, "cumulative-layout-shift"),
     speedIndex |-> MetricOf(audits, "speed-index"),
     totalBlockingTime |-> MetricOf(audits, "total-blocking-time")]

ExtractPageInfo(lhr) ==
    [title |-> TextOr(OptGet(AuditAt(lhr.audits, "document-title"),
                             "displayValue"), "No title"),
     description |-> TextOr(OptGet(AuditAt(lhr.audits, "meta-description"),
                                   "displayValue"), "No description"),
     screenshot |-> TextOr(OptGet(OptGet(Get(lhr, "fullPageScreenshot"),
                                         "screenshot"), "data"), "")]

\* categories[key]?.score || 0
CategoryScore(categories, key) == NumOrZero(OptGet(Get(categories, key), "score"))

\* the extraction with audits[key].numericValue in place of
\* audits[key]?.numericValue: a metric audit that is missing throws too
ExtractThrowsWithoutOptionalChaining(data) ==
    \/ IsNullish(data)
    \/ IsNullish(Get(data, "lighthouseResult"))
    \/ IsNullish(Get(data.lighthouseResult, "audits"))
    \/ IsNullish(Get(data.lighthouseResult, "categories"))
    \/ \E i \in 1..Len(data.lighthouseResult.audits.entries) :
           IsNullish(data.lighthouseResult.audits.entries[i].audit)
    \/ \E k \in {"first-contentful-paint", "largest-contentful-paint",
                  "max-potential-fid", "cumulative-layout-shift",
                  "speed-index", "total-blocking-time"} :
           IsNullish(AuditAt(data.lighthouseResult.audits, k))

\* reading a property of undefined or null throws a TypeError: of data, of
\* data.lighthouseResult, of its categories and audits, and of an audit
\* entry that Object.entries yields
ExtractThrows(data) ==
    \/ IsNullish(data)
    \/ IsNullish(Get(data, "lighthouseResult"))
    \/ IsNullish(Get(data.lighthouseResult, "audits"))
    \/ IsNullish(Get(data.lighthouseResult, "categories"))
    \/ \E i \in 1..Len(data.lighthouseResult.audits.entries) :
           IsNullish(data.lighthouseResult.audits.entries[i].audit)

\* lines 125-188: the LighthouseResult of a parsed response body
ExtractLighthouse(data) ==
    LET lhr == data.lighthouseResult
    IN [performance |-> CategoryScore(lhr.categories, "performance"),
        accessibility |-> CategoryScore(lhr.categories, "accessibility"),
        bestPractices |-> CategoryScore(lhr.categories, "best-practices"),
        seo |-> CategoryScore(lhr.categories, "seo"),
        metrics |-> ExtractMetrics(lhr.audits),
        pageInfo |-> ExtractPageInfo(lhr),
        opportunities |-> ExtractOpportunities(lhr.audits),
        diagnostics |-> ExtractDiagnostics(lhr.audits)]

----------------------------------------------------------------------------
(* generateFallbackSuggestions.  A text is the sequence of its lines; the   *)
(* emoji of the section headings are left out of the strings.               *)

LcpLimit == 2500
TbtLimit == 200

PerformanceHeading == "## Performance Improvements"
SeoHeading == "## SEO Enhancements"
AccessibilityHeading == "## Accessibility Improvements"

\* the comparison written as score <= 0.9
AtMostNineTenths(score) == 10 * score <= 9 * ScoreDen

\* score < 0.9
BelowNineTenths(score) == 10 * score < 9 * ScoreDen

PerformanceSection(lr) ==
    IF BelowNineTenths(lr.performance)
    THEN <<PerformanceHeading, "">>
         \o (IF lr.metrics.largestContentfulPaint > LcpLimit * Frac
             THEN <<"- **Optimize Largest Contentful Paint**: Your LCP is "
                    \o ToString(MathRound(lr.metrics.largestContentfulPaint))
                    \o "ms. Optimize your largest image or text block.">>
             ELSE <<>>)
         \o (IF lr.metrics.totalBlockingTime > TbtLimit * Frac
             THEN <<"- **Reduce JavaScript Blocking**: "
                    \o ToString(MathRound(lr.metrics.totalBlockingTime))
                    \o "ms of blocking time. Minimize and defer non-critical JS.">>
             ELSE <<>>)
         \o <<"- Compress images and use modern formats (WebP, AVIF)",
              "- Enable browser caching and CDN", "">>
    ELSE <<>>

SeoSection(lr) ==
    IF BelowNineTenths(lr.seo)
    THEN <<SeoHeading, "",
           "- Optimize meta descriptions and title tags",
           "- Improve internal linking structure",
           "- Add structured data markup", "">>
    ELSE <<>>

AccessibilitySection(lr) ==
    IF BelowNineTenths(lr.accessibility)
    THEN <<AccessibilityHeading, "",
           "- Add alt text to all images",
           "- Ensure proper color contrast ratios",
           "- Make all interactive elements keyboard accessible", "">>
    ELSE <<>>

generateFallbackSuggestions(lr) ==
    Lines(<<"# Website Audit Results", "">>
          \o PerformanceSection(lr)
          \o SeoSection(lr)
          \o AccessibilitySection(lr)
          \o <<"">>)

----------------------------------------------------------------------------
(* createPromptFromLighthouseData *)

RECURSIVE JoinChars(_)
JoinChars(s) == IF s = <<>> THEN "" ELSE Head(s) \o JoinChars(Tail(s))

\* `${v}` of a JavaScript value
TemplateString(v) ==
    IF "str" \in DOMAIN v THEN v.str
    ELSE IF "chars" \in DOMAIN v THEN JoinChars(v.chars)
    ELSE IF "num" \in DOMAIN v THEN ToString(v.num)
    ELSE IF "bool" \in DOMAIN v THEN (IF v.bool THEN "true" ELSE "false")
    ELSE IF v = Null THEN "null"
    ELSE "undefined"

\* Math.round(score * 100)
ScorePercent(score) == (2 * 100 * score + ScoreDen) \div (2 * ScoreDen)

\* v.toFixed(3) of the non-negative fixed-point number v / Frac
ToFixed3(v) ==
    LET th == (2 * 1000 * v + Frac) \div (2 * Frac)
        f == th % 1000
    IN ToString(th \div 1000) \o "."
       \o (IF f < 10 THEN "00" ELSE IF f < 100 THEN "0" ELSE "")
       \o ToString(f)

\* .slice(0, 5)
MaxPrompted == 5

OpportunityLine(opp) ==
    "- " \o TemplateString(opp.title) \o ": " \o TemplateString(opp.description)
    \o " (Potential savings: " \o ToString(MathRound(opp.savings.num)) \o "ms)"

DiagnosticLine(diag) ==
    "- " \o TemplateString(diag.title) \o ": " \o TemplateString(diag.description)

topOpportunities(lr) ==
    LET top == Slice0(lr.opportunities.items, MaxPrompted)
    IN [i \in 1..Len(top) |-> OpportunityLine(top[i])]

\* the diagnostics lines without the `.slice(0, 5)`
topIssuesUncapped(lr) ==
    [i \in 1..Len(lr.diagnostics.items) |->
        DiagnosticLine(lr.diagnostics.items[i])]

topIssues(lr) ==
    LET top == Slice0(lr.diagnostics.items, MaxPrompted)
    IN [i \in 1..Len(top) |-> DiagnosticLine(top[i])]

\* the prompt up to its closing instructions (lines 305-326), which are the
\* same text for every audit
createPromptFromLighthouseData(lr, u) ==
    <<"Analyze this comprehensive Lighthouse audit from Google PageSpeed Insights and provide specific, actionable improvement suggestions:",
      "",
      "Website: " \o TemplateString(u),
      "",
      "**Lighthouse Scores (Google PageSpeed Insights):**",
      "- Performance: " \o ToString(ScorePercent(lr.performance)) \o "/100",
      "- Accessibility: " \o ToString(ScorePercent(lr.accessibility)) \o "/100  ",
      "- Best Practices: " \o ToString(ScorePercent(lr.bestPractices)) \o "/100",
      "- SEO: " \o ToString(ScorePercent(lr.seo)) \o "/100",
      "",
      "**Core Web Vitals & Performance Metrics:**",
      "- First Contentful Paint: "
          \o ToString(MathRound(lr.metrics.firstContentfulPaint)) \o "ms",
      "- Largest Contentful Paint: "
          \o ToString(MathRound(lr.metrics.largestContentfulPaint)) \o "ms",
      "- Cumulative Layout Shift: " \o ToFixed3(lr.metrics.cumulativeLayoutShift),
      "- Total Blocking Time: "
          \o ToString(MathRound(lr.metrics.totalBlockingTime)) \o "ms",
      "- Speed Index: " \o ToString(MathRound(lr.metrics.speedIndex)),
      "",
      "**Top Performance Opportunities:**">>
    \o (IF topOpportunities(lr) = <<>>
        THEN <<"No major opportunities identified">>
        ELSE topOpportunities(lr))
    \o <<"", "**Issues Detected:**">>
    \o (IF topIssues(lr) = <<>>
        THEN <<"No major issues detected">>
        ELSE topIssues(lr))
    \o <<"",
         "**Page Information:**",
         "- Title: \"" \o lr.pageInfo.title \o "\"",
         "- Meta Description: \"" \o lr.pageInfo.description \o "\"",
         "">>

----------------------------------------------------------------------------
(* generateAISuggestions: the value returned once the text-generation      *)
(* fetch has settled with answer r.                                        *)

UnableText == Lines(<<"Unable to generate AI suggestions at this time.">>)

\* data.choices?.[0]?.message?.content
ContentOf(data) ==
    LET choices == Get(data, "choices")
        first == IF IsNullish(choices) THEN Undefined
                 ELSE IF Len(choices.items) >= 1 THEN choices.items[1]
                 ELSE Undefined
    IN OptGet(OptGet(first, "message"), "content")

\* the try block throws: fetch rejects, the status is not a success,
\* response.json() rejects, or the body is null
TextGenThrows(r) ==
    \/ r.net = "error"
    \/ ~r.ok
    \/ ~r.parses
    \/ r.data = Null

\* the content returned as it is, without the `|| "Unable ..."` default
generateAISuggestionsNoDefault(lr, r) ==
    IF TextGenThrows(r)
    THEN generateFallbackSuggestions(lr)
    ELSE ContentOf(r.data)

generateAISuggestions(lr, r) ==
    IF TextGenThrows(r)
    THEN generateFallbackSuggestions(lr)
    ELSE OrElse(ContentOf(r.data), UnableText)

----------------------------------------------------------------------------
(* Inputs: request bodies, environment, and answers of the two services    *)

\* a value of `url` in the body
UrlValues ==
    {Null, Num(0), Num(5), Bool(FALSE), Bool(TRUE)}
        \cup {Chars(s) : s \in UrlStrings}

\* request.json() rejects when the request has no body (or no JSON body)
NoBody == [nobody |-> TRUE]

\* the JSON bodies: null, a number, an object without `url`, with `url`
RequestBodies ==
    {NoBody, Null, Num(5), [other |-> Num(1)]}
        \cup {[url |-> v] : v \in UrlValues}

ApiKeys == {Undefined, Text(""), Text("key")}

\* the answer of a fetch: it rejects (net = "error"), or resolves with a
\* success or non-success status and a body that parses as JSON or not
NoAnswer == [net |-> "none", ok |-> FALSE, parses |-> FALSE, data |-> Undefined]
NetError == [net |-> "error", ok |-> FALSE, parses |-> FALSE, data |-> Undefined]
Answer(ok, parses, data) ==
    [net |-> "ok", ok |-> ok, parses |-> parses, data |-> data]

CategoryKeys == {"performance", "accessibility", "best-practices", "seo"}
MetricKeys == <<"first-contentful-paint", "largest-contentful-paint",
                "max-potential-fid", "cumulative-layout-shift",
                "speed-index", "total-blocking-time">>

\* the keys of f whose value is not Absent
Absent == [absent |-> TRUE]
Object(f) == [k \in {k \in DOMAIN f : f[k] # Absent} |-> f[k]]

AuditData(categories, entries, screenshot) ==
    [lighthouseResult |->
        Object([categories |-> categories,
                audits |-> [entries |-> entries],
                fullPageScreenshot |-> screenshot])]

\* an audit that is an opportunity with positive savings
OpportunityAudit(i) ==
    [title |-> Text("Opportunity " \o ToString(i)),
     description |-> Text("Saves time"),
     scoreDisplayMode |-> Text("metricSavings"),
     score |-> Num(ScoreDen \div 2),
     details |-> [type |-> Text("opportunity")],
     numericValue |-> Num(i * Frac + 1)]

\* audits that are no opportunity, each for another reason
DefectAudit(i) ==
    CASE i % 4 = 0 ->
           [title |-> Text("Zero savings"), description |-> Text("d"),
            details |-> [type |-> Text("opportunity")],
            numericValue |-> Num(0)]
      [] i % 4 = 1 ->
           [title |-> Text("Failing check"), description |-> Text("d"),
            scoreDisplayMode |-> Text("binary"), score |-> Num(0),
            details |-> [type |-> Text("table")],
            numericValue |-> Num(i * Frac)]
      [] i % 4 = 2 ->
           [title |-> Text("No details"), numericValue |-> Num(i * Frac),
            scoreDisplayMode |-> Text("binary"), score |-> Null]
      [] OTHER ->
           [title |-> Text("No value"), description |-> Text("d"),
            scoreDisplayMode |-> Text("binary"), score |-> Num(ScoreDen),
            details |-> [type |-> Text("opportunity")]]

FullCategories(p, a, b, s) ==
    [k \in CategoryKeys |->
        [score |-> Num(CASE k = "performance" -> p
                         [] k = "accessibility" -> a
                         [] k = "best-practices" -> b
                         [] OTHER -> s)]]

\* the subsets of S with at most k elements
RECURSIVE SubsetsUpTo(_, _)
SubsetsUpTo(S, k) ==
    IF k = 0 THEN {{}}
    ELSE LET P == SubsetsUpTo(S, k - 1)
         IN P \cup {q \cup {x} : q \in P, x \in S}

\* the audit map of n entries of which those at the positions D are no
\* opportunity
OpportunityData(n, D) ==
    AuditData(FullCategories(ScoreDen, ScoreDen, ScoreDen, ScoreDen),
              [i \in 1..n |->
                  [id |-> "audit-" \o ToString(i),
                   audit |-> IF i \in D THEN DefectAudit(i)
                             ELSE OpportunityAudit(i)]],
              Absent)

\* how a field is left out: its entry is missing, the entry lacks the field,
\* or the field is null
Omissions == {"entry", "field", "null"}

Omitted(how, hollow) == IF how = "entry" THEN Absent ELSE hollow

SampleScore(k) ==
    CASE k = "performance" -> 50
      [] k = "accessibility" -> 88
      [] k = "best-practices" -> 95
      [] OTHER -> 100

\* the response in which the categories in C, the metric audits at the
\* positions M of MetricKeys, the title, the description and the screenshot
\* (T[1], T[2], T[3]) are present, and everything else is left out in the
\* way `how`
FieldData(C, M, T, how) ==
    AuditData(
        Object([k \in CategoryKeys |->
                  IF k \in C THEN [score |-> Num(SampleScore(k))]
                  ELSE IF how = "null" THEN [score |-> Null]
                  ELSE Omitted(how, [title |-> Text(k)])]),
        SelectSeq(
            [i \in 1..Len(MetricKeys) |->
                [id |-> MetricKeys[i],
                 audit |-> IF i \in M
                           THEN [title |-> Text(MetricKeys[i]),
                                 numericValue |-> Num(i * 100 * Frac + 1)]
                           ELSE IF how = "null"
                           THEN [title |-> Text(MetricKeys[i]),
                                 numericValue |-> Null]
                           ELSE Omitted(how, [title |-> Text(MetricKeys[i])])]]
            \o <<[id |-> "document-title",
                  audit |-> IF T[1] THEN [title |-> Text("Document has a title"),
                                          displayValue |-> Text("Example Domain")]
                            ELSE IF how = "null"
                            THEN [title |-> Text("Document has a title"),
                                  displayValue |-> Null]
                            ELSE Omitted(how, [title |-> Text("Document has a title")])],
                 [id |-> "meta-description",
                  audit |-> IF T[2] THEN [title |-> Text("Has a description"),
                                          displayValue |-> Text("An example")]
                            ELSE IF how = "null"
                            THEN [title |-> Text("Has a description"),
                                  displayValue |-> Null]
                            ELSE Omitted(how, [title |-> Text("Has a description")])]>>,
            LAMBDA e : e.audit # Absent),
        IF T[3] THEN [screenshot |-> [data |-> Text("data:image/jpeg;base64,AA")]]
        ELSE IF how = "null" THEN [screenshot |-> Null]
        ELSE Omitted(how, [width |-> Num(1350)]))

\* a complete audit response with two opportunities and failing checks
SampleData(p, s, a, lcp, tbt) ==
    AuditData(
        FullCategories(p, a, 100, s),
        <<[id |-> "largest-contentful-paint",
           audit |-> [title |-> Text("LCP"), numericValue |-> Num(lcp)]],
          [id |-> "total-blocking-time",
           audit |-> [title |-> Text("TBT"), numericValue |-> Num(tbt)]],
          [id |-> "cumulative-layout-shift",
           audit |-> [title |-> Text("CLS"), numericValue |-> Num(1)]],
          [id |-> "render-blocking-resources", audit |-> OpportunityAudit(1)],
          [id |-> "is-on-https", audit |-> DefectAudit(1)],
          [id |-> "unused-javascript", audit |-> OpportunityAudit(2)],
          [id |-> "document-title",
           audit |-> [title |-> Text("Document has a title"),
                      scoreDisplayMode |-> Text("binary"), score |-> Num(ScoreDen)]]>>,
        [screenshot |-> [data |-> Text("data:image/jpeg;base64,AA")]])

\* bodies that make the extraction throw
MalformedData ==
    {Null,
     [id |-> Text("no-lighthouse-result")],
     [lighthouseResult |-> [audits |-> [entries |-> <<>>]]],
     [lighthouseResult |-> [categories |-> FullCategories(90, 90, 90, 90)]],
     AuditData(FullCategories(90, 90, 90, 90),
               <<[id |-> "errored-audit", audit |-> Null]>>, Absent)}

HandlerAuditData ==
    {SampleData(p, s, IF s = 89 THEN 100 ELSE 50, lt[1], lt[2]) :
        p \in {89, 90}, s \in {89, 90},
        lt \in {<<LcpLimit * Frac, TbtLimit * Frac>>,
                <<LcpLimit * Frac + 1, TbtLimit * Frac + 1>>}}
      \cup {AuditData(Object([k \in CategoryKeys |->
                                 IF k = "performance" THEN Absent
                                 ELSE [score |-> Num(ScoreDen)]]),
                      <<>>, Absent)}
      \cup MalformedData

\* answers of the audit service: a non-success status may carry any body
AuditAnswers(Data) ==
    {NetError, Answer(FALSE, FALSE, Undefined), Answer(TRUE, FALSE, Undefined)}
        \cup {Answer(ok, TRUE, d) : ok \in BOOLEAN, d \in Data}

SampleContent == Lines(<<"## Performance", "", "- Serve images from a CDN">>)

\* JSON bodies of the text-generation service
TextGenData ==
    {Null,
     [id |-> Text("gen-1")],
     [choices |-> [items |-> <<>>]],
     [choices |-> [items |-> <<[index |-> Num(0)]>>]],
     [choices |-> [items |-> <<[message |-> [role |-> Text("assistant")]]>>]],
     [choices |-> [items |-> <<[message |-> [content |-> Null]]>>]],
     [choices |-> [items |-> <<[message |-> [content |-> Lines(<<"">>)]]>>]],
     [choices |-> [items |-> <<[message |-> [content |-> SampleContent]]>>]]}

TextGenAnswers ==
    {NetError, Answer(FALSE, FALSE, Undefined), Answer(FALSE, TRUE, [error |-> Text("rate limited")]),
     Answer(TRUE, FALSE, Undefined)}
        \cup {Answer(TRUE, TRUE, d) : d \in TextGenData}

----------------------------------------------------------------------------
(* POST /api/audit *)

RequiredMessage == "URL is required"
InvalidMessage == "Invalid URL format"
FailedMessage == "Failed to audit website. Please try again."

NoResponse == [status |-> 0, body |-> [pending |-> TRUE]]
NoResult == [pending |-> TRUE]
NoCards == [items |-> <<>>]
NoSections == [pending |-> TRUE]

\* Analysis as mounted: useState(""), useState(false), useState(null),
\* useState(""); handleSubmit is not running and nothing is rendered
ComponentMounted ==
    /\ inputUrl = <<>>
    /\ loading = FALSE
    /\ results = Null
    /\ error = ""
    /\ awaiting = "none"
    /\ fetched = NoResponse
    /\ sections = NoSections

\* NextResponse.json({ error }, { status })
ErrorResponse(status, message) ==
    [status |-> status, body |-> [error |-> message]]

\* JSON.stringify leaves out the properties whose value is undefined
SerializeObject(o) == [k \in {k \in DOMAIN o : o[k] # Undefined} |-> o[k]]

SerializeArray(a) ==
    [items |-> [i \in 1..Len(a.items) |-> SerializeObject(a.items[i])]]

\* NextResponse.json({ url, lighthouse, metrics, ... }): status 200
SuccessResponse(u, lr, suggestions) ==
    [status |-> 200,
     body |-> SerializeObject(
         [url |-> u,
          lighthouse |-> [performance |-> lr.performance,
                          accessibility |-> lr.accessibility,
                          bestPractices |-> lr.bestPractices,
                          seo |-> lr.seo],
          metrics |-> lr.metrics,
          pageInfo |-> lr.pageInfo,
          opportunities |-> SerializeArray(lr.opportunities),
          diagnostics |-> SerializeArray(lr.diagnostics),
          suggestions |-> suggestions])]

\* `await request.json()` rejects, or destructuring `{ url }` of null throws
BodyThrows(body) == body = NoBody \/ body = Null

\* the URL constructor given a base URL, which resolves every string
UrlThrowsWithBase(u) == FALSE

\* new URL(url) throws
UrlThrows(u) == ~UrlParses(UrlToString(u))

\* the audit stage without its `if (!response.ok)` check
AuditThrowsNoStatusCheck(r) ==
    \/ r.net = "error"
    \/ ~r.parses
    \/ ExtractThrows(r.data)

\* the audit stage throws once the fetch has settled with answer r
AuditThrows(r) ==
    \/ r.net = "error"
    \/ ~r.ok
    \/ ~r.parses
    \/ ExtractThrows(r.data)

Init ==
    /\ pc = "received"
    /\ request \in [body : RequestBodies]
    /\ apiKey \in ApiKeys
    /\ url = Undefined
    /\ auditCalls = 0
    /\ textgenCalls = 0
    /\ auditInFlight = FALSE
    /\ textgenInFlight = FALSE
    /\ auditResponse = NoAnswer
    /\ textgenResponse = NoAnswer
    /\ lighthouseResult = NoResult
    /\ prompt = <<>>
    /\ response = NoResponse
    /\ scoreCards = NoCards
    /\ ComponentMounted

\* lines 37-54 and 76-82: read the body and validate `url`
Validate ==
    /\ pc = "received"
    /\ IF BodyThrows(request.body)
       THEN /\ response' = ErrorResponse(500, FailedMessage)
            /\ pc' = "responded"
            /\ url' = url
       ELSE /\ url' = Get(request.body, "url")
            /\ IF ~Truthy(url')
               THEN /\ response' = ErrorResponse(400, RequiredMessage)
                    /\ pc' = "responded"
               ELSE IF UrlThrows(url')
               THEN /\ response' = ErrorResponse(400, InvalidMessage)
                    /\ pc' = "responded"
               ELSE /\ response' = response
                    /\ pc' = "validated"
    /\ UNCHANGED <<request, apiKey, auditCalls, textgenCalls, auditInFlight,
                   textgenInFlight, auditResponse, textgenResponse,
                   lighthouseResult, prompt, scoreCards>>
    /\ UNCHANGED <<componentVars, sections>>

\* runPageSpeedInsights without its `if (!apiKey)` check
AuditStartNoKeyCheck ==
    /\ pc = "validated"
    /\ auditCalls' = auditCalls + 1
    /\ auditInFlight' = TRUE
    /\ pc' = "auditing"
    /\ UNCHANGED <<request, apiKey, url, textgenCalls, textgenInFlight,
                   auditResponse, textgenResponse, lighthouseResult, prompt,
                   response, scoreCards>>
    /\ UNCHANGED <<componentVars, sections>>

\* lines 57 and 85-115: runPageSpeedInsights up to its fetch
AuditStart ==
    /\ pc = "validated"
    /\ IF ~Truthy(apiKey)
       THEN /\ response' = ErrorResponse(500, FailedMessage)
            /\ pc' = "responded"
            /\ UNCHANGED <<auditCalls, auditInFlight>>
       ELSE /\ auditCalls' = auditCalls + 1
            /\ auditInFlight' = TRUE
            /\ pc' = "auditing"
            /\ response' = response
    /\ UNCHANGED <<request, apiKey, url, textgenCalls, textgenInFlight,
                   auditResponse, textgenResponse, lighthouseResult, prompt,
                   scoreCards>>
    /\ UNCHANGED <<componentVars, sections>>

\* lines 117-199 and 76-82: the audit fetch settles with answer r
AuditResolve(r) ==
    /\ pc = "auditing"
    /\ auditInFlight' = FALSE
    /\ auditResponse' = r
    /\ IF AuditThrows(r)
       THEN /\ response' = ErrorResponse(500, FailedMessage)
            /\ pc' = "responded"
            /\ lighthouseResult' = lighthouseResult
       ELSE /\ lighthouseResult' = ExtractLighthouse(r.data)
            /\ pc' = "audited"
            /\ response' = response
    /\ UNCHANGED <<request, apiKey, url, auditCalls, textgenCalls,
                   textgenInFlight, textgenResponse, prompt, scoreCards>>
    /\ UNCHANGED <<componentVars, sections>>

\* lines 60 and 202-230: generateAISuggestions up to its fetch
TextGenStart ==
    /\ pc = "audited"
    /\ prompt' = createPromptFromLighthouseData(lighthouseResult, url)
    /\ textgenCalls' = textgenCalls + 1
    /\ textgenInFlight' = TRUE
    /\ pc' = "generating"
    /\ UNCHANGED <<request, apiKey, url, auditCalls, auditInFlight,
                   auditResponse, textgenResponse, lighthouseResult, response,
                   scoreCards>>
    /\ UNCHANGED <<componentVars, sections>>

\* lines 232-246 and 62-75: the text-generation fetch settles with answer r
TextGenResolve(r) ==
    /\ pc = "generating"
    /\ textgenInFlight' = FALSE
    /\ textgenResponse' = r
    /\ response' = SuccessResponse(url, lighthouseResult,
                                   generateAISuggestions(lighthouseResult, r))
    /\ pc' = "responded"
    /\ UNCHANGED <<request, apiKey, url, auditCalls, textgenCalls,
                   auditInFlight, auditResponse, lighthouseResult, prompt,
                   scoreCards>>
    /\ UNCHANGED <<componentVars, sections>>

----------------------------------------------------------------------------
(* Properties of POST /api/audit *)

Responded == pc = "responded"
NoOutboundCall == auditCalls = 0 /\ textgenCalls = 0

\* the body is a JSON object whose `url` is a string
UrlIsString == request.body # NoBody /\ "url" \in DOMAIN request.body
                   /\ "chars" \in DOMAIN request.body.url
UrlString == request.body.url.chars

\* C1 as stated: for every `url` that is a string new URL rejects, the
\* response is 400 {error: "Invalid URL format"} and no outbound call is made.
C1_EveryUnparseableString ==
    (UrlIsString /\ ~UrlParses(UrlString)) =>
        /\ NoOutboundCall
        /\ Responded => response = ErrorResponse(400, InvalidMessage)

\* C1 amended: for every `url` that is a non-empty string new URL rejects,
\* the response is 400 {error: "Invalid URL format"} and no outbound call is
\* made (the empty string is answered 400 {error: "URL is required"}).
C1_NonEmptyUnparseableString ==
    /\ (UrlIsString /\ UrlString # <<>> /\ ~UrlParses(UrlString)) =>
          /\ NoOutboundCall
          /\ Responded => response = ErrorResponse(400, InvalidMessage)
    /\ (UrlIsString /\ UrlString = <<>>) =>
          /\ NoOutboundCall
          /\ Responded => response = ErrorResponse(400, RequiredMessage)

C1_Witness ==
    /\ Responded
    /\ UrlIsString
    /\ Len(UrlString) = MaxUrlLen
    /\ UrlString[1] \in AsciiAlpha
    /\ ~UrlParses(UrlString)
    /\ response.status = 400

\* C2: a request with no body, or with a body that has no `url` field, is
\* answered 400 {error: "URL is required"}, never 500, without outbound call.
C2_MissingBodyIs400 ==
    (request.body = NoBody
        \/ (request.body # Null /\ "url" \notin DOMAIN request.body)) =>
        /\ NoOutboundCall
        /\ Responded => response = ErrorResponse(400, RequiredMessage)

\* the audit stage returned a LighthouseResult
AuditSucceeded ==
    /\ auditResponse.net = "ok"
    /\ auditResponse.ok
    /\ auditResponse.parses
    /\ lighthouseResult # NoResult

HasLine(text, line) == \E i \in 1..Len(text.lines) : text.lines[i] = line

\* C3: when the audit succeeds and the text-generation service answers with
\* a non-success status, the response is 200, `suggestions` is the non-empty
\* text of generateFallbackSuggestions, and it holds the performance section
\* iff the performance score is below 0.9.
C3_FallbackOnNonSuccess ==
    (Responded /\ AuditSucceeded
        /\ textgenResponse.net = "ok" /\ ~textgenResponse.ok) =>
        /\ response.status = 200
        /\ response.body.suggestions = generateFallbackSuggestions(lighthouseResult)
        /\ response.body.suggestions.lines # <<"">>
        /\ Len(response.body.suggestions.lines) > 1
        /\ HasLine(response.body.suggestions, PerformanceHeading)
             <=> 10 * response.body.lighthouse.performance < 9 * ScoreDen

C3_Witness ==
    /\ Responded
    /\ AuditSucceeded
    /\ textgenResponse.net = "ok"
    /\ ~textgenResponse.ok
    /\ response.status = 200
    /\ HasLine(response.body.suggestions, PerformanceHeading)
    /\ ~HasLine(response.body.suggestions, SeoHeading)

\* the text-generation call failed: no answer, a non-success status, a body
\* that is no JSON, or a body without choices[0].message.content
TextGenFailed ==
    \/ textgenResponse.net = "error"
    \/ textgenResponse.net = "ok" /\ ~textgenResponse.ok
    \/ textgenResponse.net = "ok" /\ ~textgenResponse.parses
    \/ /\ textgenResponse.net = "ok"
       /\ textgenResponse.parses
       /\ \/ textgenResponse.data = Null
          \/ ContentOf(textgenResponse.data) = Undefined

\* C4: for every kind of text-generation failure the suggestions returned
\* are exactly those of generateFallbackSuggestions for the same result.
C4_EveryFailureFallsBack ==
    (Responded /\ AuditSucceeded /\ TextGenFailed) =>
        /\ response.status = 200
        /\ response.body.suggestions = generateFallbackSuggestions(lighthouseResult)

\* C5: the text-generation call is issued only after the audit call has
\* resolved successfully; the two calls are never in flight together, and
\* no text-generation call is issued when validation or the audit fails.
C5_CallsAreSequential ==
    /\ ~(auditInFlight /\ textgenInFlight)
    /\ textgenCalls <= auditCalls
    /\ textgenCalls > 0 =>
          /\ ~auditInFlight
          /\ auditResponse.net = "ok" /\ auditResponse.ok /\ auditResponse.parses
          /\ lighthouseResult # NoResult
          /\ Truthy(url) /\ UrlParses(UrlToString(url))
          /\ Truthy(apiKey)
    /\ textgenInFlight => textgenCalls > 0

C5_Witness == textgenInFlight /\ auditCalls = 1 /\ textgenCalls = 1

ResultFields == {"url", "lighthouse", "metrics", "pageInfo", "opportunities",
                 "diagnostics", "suggestions"}

\* C6: every response is a 200 carrying all of the result fields, or a 400
\* or 500 carrying only `error`.
C6_NoPartialResult ==
    Responded =>
        \/ response.status = 200 /\ DOMAIN response.body = ResultFields
        \/ response.status \in {400, 500} /\ DOMAIN response.body = {"error"}

C6_Witness ==
    /\ Responded
    /\ response.status = 200
    /\ textgenResponse.net = "ok" /\ textgenResponse.ok /\ textgenResponse.parses
    /\ textgenResponse.data # Null
    /\ ContentOf(textgenResponse.data) = Undefined

\* the audit stage failed: no API key, the fetch rejected, or the audit
\* service answered with a non-success status
AuditStageFailed ==
    /\ Truthy(url) /\ UrlParses(UrlToString(url))
    /\ \/ ~Truthy(apiKey)
       \/ auditResponse.net = "error"
       \/ auditResponse.net = "ok" /\ ~auditResponse.ok

\* C7: when the audit stage fails the response is 500 {error: "Failed to
\* audit website. Please try again."}; the audit service is called at most
\* once per request, and not at all when the API key is absent.
C7_AuditFailureIs500 ==
    /\ auditCalls <= 1
    /\ ~Truthy(apiKey) => auditCalls = 0
    /\ (Responded /\ AuditStageFailed) =>
          /\ response = ErrorResponse(500, FailedMessage)
          /\ textgenCalls = 0

C7_Witness ==
    /\ Responded
    /\ auditCalls = 1
    /\ auditResponse.net = "ok" /\ ~auditResponse.ok /\ auditResponse.parses
    /\ ~ExtractThrows(auditResponse.data)
    /\ response = ErrorResponse(500, FailedMessage)

----------------------------------------------------------------------------
(* runPageSpeedInsights on enumerated audit maps: the handler with its     *)
(* audit fetch in flight, settled by every response of OpportunityData and *)
(* FieldData.                                                              *)

ExtractUrl == Chars(<<"w", "s", ":", "w">>)

ExtractInit ==
    /\ pc = "auditing"
    /\ request = [body |-> [url |-> ExtractUrl]]
    /\ apiKey = Text("key")
    /\ url = ExtractUrl
    /\ auditCalls = 1
    /\ textgenCalls = 0
    /\ auditInFlight = TRUE
    /\ textgenInFlight = FALSE
    /\ auditResponse = NoAnswer
    /\ textgenResponse = NoAnswer
    /\ lighthouseResult = NoResult
    /\ prompt = <<>>
    /\ response = NoResponse
    /\ scoreCards = NoCards
    /\ ComponentMounted

\* the audit fetch settles with an audit map of opportunities
OpportunitiesSettle ==
    /\ pc = "auditing"
    /\ \E n \in 0..MaxAudits :
          \E D \in SubsetsUpTo(1..n, MaxDefects) :
             AuditResolve(Answer(TRUE, TRUE, OpportunityData(n, D)))

\* the audit fetch settles with a response that leaves fields out
FieldsSettle ==
    /\ pc = "auditing"
    /\ \E C \in SUBSET CategoryKeys, M \in SUBSET (1..Len(MetricKeys)),
          T \in [1..3 -> BOOLEAN], how \in Omissions :
             AuditResolve(Answer(TRUE, TRUE, FieldData(C, M, T, how)))

ExtractNext ==
    \/ OpportunitiesSettle
    \/ FieldsSettle

SpecExtract == ExtractInit /\ [][ExtractNext]_vars

\* the audit map the audit service answered with
UpstreamEntries == auditResponse.data.lighthouseResult.audits.entries

\* the positions of the entries whose details type is "opportunity" and
\* whose numeric value is a positive number
Qualifying ==
    {i \in 1..Len(UpstreamEntries) :
        LET a == UpstreamEntries[i].audit
        IN /\ "details" \in DOMAIN a
           /\ "type" \in DOMAIN a.details
           /\ a.details.type = Text("opportunity")
           /\ "numericValue" \in DOMAIN a
           /\ "num" \in DOMAIN a.numericValue
           /\ a.numericValue.num > 0}

\* the position of the j-th qualifying entry
NthQualifying(j) ==
    CHOOSE i \in Qualifying : Cardinality({q \in Qualifying : q <= i}) = j

\* C8: the returned opportunities are the first min(10, n) of the n entries
\* whose details type is "opportunity" and whose numeric value is positive,
\* in upstream order, each as {id, title, description, savings}.
C8_FirstTenOpportunities ==
    pc = "audited" =>
        LET items == lighthouseResult.opportunities.items
            n == Cardinality(Qualifying)
        IN /\ Len(items) = IF n < 10 THEN n ELSE 10
           /\ \A j \in 1..Len(items) :
                 LET e == UpstreamEntries[NthQualifying(j)]
                 IN /\ items[j].id = Text(e.id)
                    /\ items[j].title = e.audit.title
                    /\ items[j].description = e.audit.description
                    /\ items[j].savings = e.audit.numericValue

C8_Witness ==
    /\ pc = "audited"
    /\ Len(UpstreamEntries) = 15
    /\ Cardinality(Qualifying) = 12
    /\ 2 \notin Qualifying
    /\ Len(lighthouseResult.opportunities.items) = 10
    /\ lighthouseResult.opportunities.items[10].id = Text("audit-11")

\* the field of the audit stored under key is missing: there is no such
\* audit, or it has no such field, or the field is null
FieldMissing(key, field) ==
    \A i \in 1..Len(UpstreamEntries) :
        UpstreamEntries[i].id = key =>
            \/ field \notin DOMAIN UpstreamEntries[i].audit
            \/ UpstreamEntries[i].audit[field] = Null

FieldValue(key, field) ==
    LET i == CHOOSE i \in 1..Len(UpstreamEntries) : UpstreamEntries[i].id = key
    IN UpstreamEntries[i].audit[field]

UpstreamCategories == auditResponse.data.lighthouseResult.categories

ScoreMissing(key) ==
    \/ key \notin DOMAIN UpstreamCategories
    \/ "score" \notin DOMAIN UpstreamCategories[key]
    \/ UpstreamCategories[key].score = Null

ScreenshotMissing ==
    LET lhr == auditResponse.data.lighthouseResult
    IN \/ "fullPageScreenshot" \notin DOMAIN lhr
       \/ "screenshot" \notin DOMAIN lhr.fullPageScreenshot
       \/ lhr.fullPageScreenshot.screenshot = Null

MetricResult ==
    [k \in {MetricKeys[i] : i \in 1..Len(MetricKeys)} |->
        CASE k = "first-contentful-paint" -> lighthouseResult.metrics.firstContentfulPaint
          [] k = "largest-contentful-paint" -> lighthouseResult.metrics.largestContentfulPaint
          [] k = "max-potential-fid" -> lighthouseResult.metrics.firstInputDelay
          [] k = "cumulative-layout-shift" -> lighthouseResult.metrics.cumulativeLayoutShift
          [] k = "speed-index" -> lighthouseResult.metrics.speedIndex
          [] OTHER -> lighthouseResult.metrics.totalBlockingTime]

ScoreResult ==
    [k \in CategoryKeys |->
        CASE k = "performance" -> lighthouseResult.performance
          [] k = "accessibility" -> lighthouseResult.accessibility
          [] k = "best-practices" -> lighthouseResult.bestPractices
          [] OTHER -> lighthouseResult.seo]

\* C9: for a successful audit response (one that has its `categories` and
\* `audits` objects) runPageSpeedInsights succeeds; a metric whose audit or
\* numeric value is missing is 0 and a category whose score is missing is 0;
\* a missing title, description, screenshot is "No title", "No
\* description", "".  What is present is returned as it is.
C9_MissingFieldsDefault ==
    auditResponse.net = "ok" =>
        /\ pc = "audited"
        /\ \A k \in DOMAIN MetricResult :
              MetricResult[k] = IF FieldMissing(k, "numericValue") THEN 0
                                ELSE FieldValue(k, "numericValue").num
        /\ \A k \in CategoryKeys :
              ScoreResult[k] = IF ScoreMissing(k) THEN 0
                               ELSE UpstreamCategories[k].score.num
        /\ lighthouseResult.pageInfo.title =
              IF FieldMissing("document-title", "displayValue") THEN "No title"
              ELSE FieldValue("document-title", "displayValue").str
        /\ lighthouseResult.pageInfo.description =
              IF FieldMissing("meta-description", "displayValue")
              THEN "No description"
              ELSE FieldValue("meta-description", "displayValue").str
        /\ ScreenshotMissing => lighthouseResult.pageInfo.screenshot = ""

C9_Witness ==
    /\ pc = "audited"
    /\ Len(UpstreamEntries) > 0
    /\ \A i \in 1..Len(UpstreamEntries) :
          UpstreamEntries[i].id # "largest-contentful-paint"
    /\ ~FieldMissing("first-contentful-paint", "numericValue")
    /\ "performance" \notin DOMAIN UpstreamCategories
    /\ ~ScoreMissing("seo")
    /\ FieldMissing("document-title", "displayValue")
    /\ ScreenshotMissing
    /\ lighthouseResult.metrics.largestContentfulPaint = 0
    /\ lighthouseResult.metrics.firstContentfulPaint > 0
    /\ lighthouseResult.performance = 0
    /\ lighthouseResult.pageInfo.title = "No title"
    /\ lighthouseResult.pageInfo.screenshot = ""

----------------------------------------------------------------------------
(* Analysis component: the score cards.  getScoreColor, getScoreIcon and   *)
(* getScoreBg are applied to Math.round(score * 100) of each category of   *)
(* the results received.                                                   *)

\* how far below 0 and above 1 the enumerated scores reach, in 1/ScoreDen
ScoreMargin == 5

getScoreColor(score) ==
    IF score >= 90 THEN "text-green-600"
    ELSE IF score >= 70 THEN "text-yellow-600"
    ELSE "text-red-600"

\* the icon chosen with `score > 90`
getScoreIconStrict(score) ==
    IF score > 90 THEN "CheckCircle text-green-600"
    ELSE IF score >= 70 THEN "AlertCircle text-yellow-600"
    ELSE "XCircle text-red-600"

getScoreIcon(score) ==
    IF score >= 90 THEN "CheckCircle text-green-600"
    ELSE IF score >= 70 THEN "AlertCircle text-yellow-600"
    ELSE "XCircle text-red-600"

getScoreBg(score) ==
    IF score >= 90 THEN "from-green-50 to-emerald-100 border-green-200"
    ELSE IF score >= 70 THEN "from-yellow-50 to-amber-100 border-yellow-200"
    ELSE "from-red-50 to-rose-100 border-red-200"

\* one card of the results grid
ScoreCard(name, score) ==
    [name |-> name,
     score |-> ScorePercent(score),
     bg |-> getScoreBg(ScorePercent(score)),
     icon |-> getScoreIcon(ScorePercent(score)),
     color |-> getScoreColor(ScorePercent(score))]

\* `results && (...)`: the four cards of the results received
RenderScoreCards ==
    /\ pc = "responded"
    /\ response.status = 200
    /\ scoreCards = NoCards
    /\ scoreCards' =
          [items |-> <<ScoreCard("Performance", response.body.lighthouse.performance),
                       ScoreCard("Accessibility", response.body.lighthouse.accessibility),
                       ScoreCard("Best Practices", response.body.lighthouse.bestPractices),
                       ScoreCard("SEO", response.body.lighthouse.seo)>>]
    /\ UNCHANGED <<handlerVars, componentVars, sections>>

----------------------------------------------------------------------------
(* One request, from its arrival to the rendering of its result *)

AuditSettles ==
    /\ pc = "auditing"
    /\ \E r \in AuditAnswers(HandlerAuditData) : AuditResolve(r)

TextGenSettles ==
    /\ pc = "generating"
    /\ \E r \in TextGenAnswers : TextGenResolve(r)

Next ==
    \/ Validate
    \/ AuditStart
    \/ AuditSettles
    \/ TextGenStart
    \/ TextGenSettles
    \/ RenderScoreCards

Spec == Init /\ [][Next]_vars

----------------------------------------------------------------------------
(* The score cards of results whose scores range over ScoreRange *)

ScoreRange == (0 - ScoreMargin)..(ScoreDen + ScoreMargin)

\* the handler has answered 200 for an audit whose performance and
\* accessibility scores are p and a
ScoreInit ==
    \E p \in ScoreRange, a \in ScoreRange :
        /\ pc = "responded"
        /\ request = [body |-> [url |-> ExtractUrl]]
        /\ apiKey = Text("key")
        /\ url = ExtractUrl
        /\ auditCalls = 1
        /\ textgenCalls = 1
        /\ auditInFlight = FALSE
        /\ textgenInFlight = FALSE
        /\ auditResponse = Answer(TRUE, TRUE,
               SampleData(p, 90, a, LcpLimit * Frac, TbtLimit * Frac))
        /\ textgenResponse = NetError
        /\ lighthouseResult = ExtractLighthouse(auditResponse.data)
        /\ prompt = createPromptFromLighthouseData(lighthouseResult, url)
        /\ response = SuccessResponse(url, lighthouseResult,
                          generateAISuggestions(lighthouseResult, textgenResponse))
        /\ scoreCards = NoCards
        /\ ComponentMounted

ScoreNext == RenderScoreCards

SpecScore == ScoreInit /\ [][ScoreNext]_vars

TierOfColor(c) ==
    CASE c = "text-green-600" -> "good"
      [] c = "text-yellow-600" -> "fair"
      [] c = "text-red-600" -> "poor"
      [] OTHER -> "none"

TierOfIcon(c) ==
    CASE c = "CheckCircle text-green-600" -> "good"
      [] c = "AlertCircle text-yellow-600" -> "fair"
      [] c = "XCircle text-red-600" -> "poor"
      [] OTHER -> "none"

TierOfBg(c) ==
    CASE c = "from-green-50 to-emerald-100 border-green-200" -> "good"
      [] c = "from-yellow-50 to-amber-100 border-yellow-200" -> "fair"
      [] c = "from-red-50 to-rose-100 border-red-200" -> "poor"
      [] OTHER -> "none"

TierRank(t) == CASE t = "poor" -> 0 [] t = "fair" -> 1 [] t = "good" -> 2 [] OTHER -> 3

\* C10: every integer score gets a tier, "good" from 90, "fair" from 70 to
\* 89, "poor" below 70 (negative scores too, and "good" above 100); the
\* color, the icon and the background of a card show the same tier, and a
\* higher score never gets a lower tier.
C10_ScoreTiers ==
    /\ \A i \in 1..Len(scoreCards.items) :
          LET c == scoreCards.items[i]
              tier == IF c.score >= 90 THEN "good"
                      ELSE IF c.score >= 70 /\ c.score <= 89 THEN "fair"
                      ELSE IF c.score < 70 THEN "poor"
                      ELSE "none"
          IN /\ TierOfColor(c.color) = tier
             /\ TierOfIcon(c.icon) = tier
             /\ TierOfBg(c.bg) = tier
    /\ \A i, j \in 1..Len(scoreCards.items) :
          scoreCards.items[i].score <= scoreCards.items[j].score =>
              TierRank(TierOfColor(scoreCards.items[i].color))
                  <= TierRank(TierOfColor(scoreCards.items[j].color))

C10_Witness ==
    /\ Len(scoreCards.items) = 4
    /\ scoreCards.items[1].score < 0
    /\ TierOfIcon(scoreCards.items[1].icon) = "poor"
    /\ scoreCards.items[2].score > 100
    /\ TierOfBg(scoreCards.items[2].bg) = "good"
    /\ scoreCards.items[3].score = 100
    /\ scoreCards.items[4].score = 90
    /\ TierOfColor(scoreCards.items[4].color) = "good"

----------------------------------------------------------------------------
(* Analysis component: formatSuggestions.  A suggestion text is a sequence *)
(* of characters; the rendered sections are [items |-> the sequence of     *)
(* sections], each with its icon, its title and its body elements.         *)

\* longest suggestion text enumerated
MaxTextLen == 6

\* the characters of the enumerated texts
TextAlphabet == {"#", "*", "-", "a", " ", "\n"}

\* the bullet character U+2022
Bullet == "U+2022"

\* the characters the class \s and trim() take as white space
WhiteSpace == {" ", "\n", "\t", "\r"}

\* the most "#" one match of /#{1,6}\s*/ takes
MaxHeaderMarks == 6

RECURSIVE CountRun(_, _, _)
\* how many elements at the start of s are equal to c, at most max
CountRun(s, c, max) ==
    IF max = 0 \/ s = <<>> \/ Head(s) # c THEN 0
    ELSE 1 + CountRun(Tail(s), c, max - 1)

\* s.slice(i - 1)
From(s, i) == SubSeq(s, i, Len(s))

\* s.trim()
Trim(s) ==
    SubSeq(s, FirstNotIn(s, 1, WhiteSpace), LastNotIn(s, Len(s), WhiteSpace))

RECURSIVE StripHeaders(_)
\* .replace(/#{1,6}\s*/g, ""): a match is one to six "#" and all the white
\* space after them, line breaks included
StripHeaders(s) ==
    IF s = <<>> THEN <<>>
    ELSE IF Head(s) = "#"
    THEN LET marks == CountRun(s, "#", MaxHeaderMarks)
         IN StripHeaders(From(s, FirstNotIn(s, marks + 1, WhiteSpace)))
    ELSE <<Head(s)>> \o StripHeaders(Tail(s))

RECURSIVE StripBold(_)
\* .replace(/\*{1,2}([^*]+)\*{1,2}/g, "$1"): a match opens with one or two
\* "*", holds at least one character that is no "*", and closes with one
\* or two "*"
StripBold(s) ==
    IF s = <<>> THEN <<>>
    ELSE LET open == CountRun(s, "*", 2)
             close == FirstIn(s, open + 1, {"*"})
             matches == /\ open >= 1
                        /\ close > open + 1
                        /\ close <= Len(s)
         IN IF matches
            THEN SubSeq(s, open + 1, close - 1)
                 \o StripBold(From(s, close + CountRun(From(s, close), "*", 2)))
            ELSE <<Head(s)>> \o StripBold(Tail(s))

\* the position of the last "\n" of s among the positions from..to, or 0
RECURSIVE LastBreak(_, _, _)
LastBreak(s, from, to) ==
    IF to < from THEN 0
    ELSE IF s[to] = "\n" THEN to
    ELSE LastBreak(s, from, to - 1)

\* the position where the leftmost match of /\n\s*\n/ in s at or after i
\* starts, or Len(s) + 1
RECURSIVE BlankStart(_, _)
BlankStart(s, i) ==
    LET b == FirstIn(s, i, {"\n"})
    IN IF b > Len(s) THEN Len(s) + 1
       ELSE IF LastBreak(s, b + 1, FirstNotIn(s, b + 1, WhiteSpace) - 1) > 0
            THEN b
            ELSE BlankStart(s, b + 1)

RECURSIVE SplitBlank(_)
\* .split(/\n\s*\n/): a sequence of strings
SplitBlank(s) ==
    LET b == BlankStart(s, 1)
    IN IF b > Len(s) THEN <<s>>
       ELSE LET e == LastBreak(s, b + 1, FirstNotIn(s, b + 1, WhiteSpace) - 1)
            IN <<SubSeq(s, 1, b - 1)>> \o SplitBlank(From(s, e + 1))

RECURSIVE SplitLines(_)
\* .split("\n")
SplitLines(s) ==
    LET b == FirstIn(s, 1, {"\n"})
    IN IF b > Len(s) THEN <<s>>
       ELSE <<SubSeq(s, 1, b - 1)>> \o SplitLines(From(s, b + 1))

\* .filter((x) => x.trim())
NonBlank(x) == Trim(x) # <<>>

\* s.startsWith("-") || s.startsWith(the bullet)
StartsWithBullet(s) == s # <<>> /\ Head(s) \in {"-", Bullet}

RECURSIVE Digits(_)
\* `${n}` of a natural number, as characters
Digits(n) ==
    IF n < 10 THEN <<ToString(n)>>
    ELSE Digits(n \div 10) \o <<ToString(n % 10)>>

RecommendationsTitle ==
    <<"R", "e", "c", "o", "m", "m", "e", "n", "d", "a", "t", "i", "o", "n",
      "s", " ">>

\* s.toLowerCase()
ToLowerCase(s) ==
    LET UpperCase == <<"A", "B", "C", "D", "E", "F", "G", "H", "I", "J", "K",
                       "L", "M", "N", "O", "P", "Q", "R", "S", "T", "U", "V",
                       "W", "X", "Y", "Z">>
        LowerCase == <<"a", "b", "c", "d", "e", "f", "g", "h", "i", "j", "k",
                       "l", "m", "n", "o", "p", "q", "r", "s", "t", "u", "v",
                       "w", "x", "y", "z">>
    IN [i \in 1..Len(s) |->
           IF \E k \in 1..Len(UpperCase) : UpperCase[k] = s[i]
           THEN LowerCase[CHOOSE k \in 1..Len(UpperCase) : UpperCase[k] = s[i]]
           ELSE s[i]]

\* s.includes(w)
Includes(s, w) ==
    \E i \in 0..(Len(s) - Len(w)) : SubSeq(s, i + 1, i + Len(w)) = w

\* lines 84-109: the icon of a section title
getSectionIcon(title) ==
    LET lowerTitle == ToLowerCase(title)
        has(w) == Includes(lowerTitle, w)
    IN IF has(<<"p", "e", "r", "f", "o", "r", "m", "a", "n", "c", "e">>)
          \/ has(<<"s", "p", "e", "e", "d">>)
       THEN "Zap text-green-600"
       ELSE IF has(<<"s", "e", "o">>) \/ has(<<"s", "e", "a", "r", "c", "h">>)
       THEN "Search text-blue-600"
       ELSE IF has(<<"a", "c", "c", "e", "s", "s", "i", "b", "i", "l", "i", "t", "y">>)
               \/ has(<<"a", "c", "c", "e", "s", "s">>)
       THEN "Eye text-purple-600"
       ELSE IF has(<<"u", "s", "e", "r">>) \/ has(<<"u", "x">>)
               \/ has(<<"e", "x", "p", "e", "r", "i", "e", "n", "c", "e">>)
       THEN "Target text-pink-600"
       ELSE IF has(<<"c", "o", "n", "t", "e", "n", "t">>)
               \/ has(<<"t", "e", "x", "t">>)
       THEN "Globe text-orange-600"
       ELSE IF has(<<"s", "e", "c", "u", "r", "i", "t", "y">>)
               \/ has(<<"s", "a", "f", "e">>)
       THEN "Shield text-red-600"
       ELSE "Lightbulb text-indigo-600"

\* where the match of /\[([^\]]+)\]\(([^)]+)\)/ that starts at the "[" at
\* position i of s ends, or 0 when there is none
LinkEnd(s, i) ==
    LET j == FirstIn(s, i + 1, {"]"})
        k == FirstIn(s, j + 2, {")"})
    IN IF /\ j > i + 1
          /\ j + 1 <= Len(s)
          /\ s[j + 1] = "("
          /\ k > j + 2
          /\ k <= Len(s)
       THEN k
       ELSE 0

\* the position of the first link of s at or after i, or Len(s) + 1
RECURSIVE FirstLink(_, _)
FirstLink(s, i) ==
    LET b == FirstIn(s, i, {"["})
    IN IF b > Len(s) THEN Len(s) + 1
       ELSE IF LinkEnd(s, b) > 0 THEN b
       ELSE FirstLink(s, b + 1)

\* the `parts` array of renderInlineFormatting
RECURSIVE InlineParts(_)
InlineParts(s) ==
    LET b == FirstLink(s, 1)
    IN IF b > Len(s)
       THEN (IF s = <<>> THEN <<>> ELSE <<Chars(s)>>)
       ELSE LET j == FirstIn(s, b + 1, {"]"})
                k == LinkEnd(s, b)
            IN (IF b > 1 THEN <<Chars(SubSeq(s, 1, b - 1))>> ELSE <<>>)
               \o <<[link |-> SubSeq(s, b + 1, j - 1),
                     href |-> SubSeq(s, j + 2, k - 1)]>>
               \o InlineParts(From(s, k + 1))

\* lines 111-146: parts.length > 0 ? parts : text
renderInlineFormatting(text) ==
    IF InlineParts(text) = <<>> THEN Chars(text)
    ELSE [items |-> InlineParts(text)]

\* lines 157-187: one element of the body of a section
RenderLine(line) ==
    LET trimmedLine == Trim(line)
    IN IF trimmedLine = <<>> THEN Null
       ELSE IF StartsWithBullet(trimmedLine)
       THEN LET bulletText ==
                    From(trimmedLine, FirstNotIn(trimmedLine, 2, WhiteSpace))
            IN [bullet |-> renderInlineFormatting(bulletText)]
       ELSE [p |-> renderInlineFormatting(trimmedLine)]

\* lines 70-82 and 148-190: the section rendered for the index-th element
\* (from 0) of `sections`, or null
RenderSection(section, index) ==
    LET lines == SelectSeq(SplitLines(section), NonBlank)
        firstLine == Trim(lines[1])
        generic == StartsWithBullet(firstLine)
        sectionTitle == IF generic
                        THEN RecommendationsTitle \o Digits(index + 1)
                        ELSE firstLine
        content == IF generic THEN lines ELSE Tail(lines)
    IN IF Len(lines) = 0 THEN Null
       ELSE [key |-> index,
             icon |-> getSectionIcon(sectionTitle),
             title |-> sectionTitle,
             body |-> [i \in 1..Len(content) |-> RenderLine(content[i])]]

formatSuggestions(suggestions) ==
    LET cleanText == Trim(StripBold(StripHeaders(suggestions)))
        secs == SelectSeq(SplitBlank(cleanText), NonBlank)
    IN SelectSeq([i \in 1..Len(secs) |-> RenderSection(secs[i], i - 1)],
                 LAMBDA x : x # Null)

\* line 362, inside `results && (...)`: the suggestions of the results
RenderSuggestions ==
    /\ results # Null
    /\ "suggestions" \in DOMAIN results
    /\ "chars" \in DOMAIN results.suggestions
    /\ sections = NoSections
    /\ sections' = [items |-> formatSuggestions(results.suggestions.chars)]
    /\ UNCHANGED <<handlerVars, scoreCards, componentVars>>

----------------------------------------------------------------------------
(* The sections of every suggestion text of up to MaxTextLen characters *)

Texts == UNION {[1..n -> TextAlphabet] : n \in 0..MaxTextLen}

ContentAnswer(content) ==
    Answer(TRUE, TRUE,
           [choices |-> [items |-> <<[message |-> [content |-> content]]>>]])

\* the handler has answered 200 with the text the text-generation service
\* returned, and the component holds the body as its results
FormatInit ==
    \E text \in Texts :
        /\ pc = "responded"
        /\ request = [body |-> [url |-> ExtractUrl]]
        /\ apiKey = Text("key")
        /\ url = ExtractUrl
        /\ auditCalls = 1
        /\ textgenCalls = 1
        /\ auditInFlight = FALSE
        /\ textgenInFlight = FALSE
        /\ auditResponse = Answer(TRUE, TRUE,
               SampleData(90, 90, 90, LcpLimit * Frac, TbtLimit * Frac))
        /\ textgenResponse = ContentAnswer(Chars(text))
        /\ lighthouseResult = ExtractLighthouse(auditResponse.data)
        /\ prompt = createPromptFromLighthouseData(lighthouseResult, url)
        /\ response = SuccessResponse(url, lighthouseResult,
                          generateAISuggestions(lighthouseResult, textgenResponse))
        /\ scoreCards = NoCards
        /\ inputUrl = ExtractUrl.chars
        /\ loading = FALSE
        /\ results = response.body
        /\ error = ""
        /\ awaiting = "none"
        /\ fetched = response
        /\ sections = NoSections

FormatNext == RenderSuggestions

SpecFormat == FormatInit /\ [][FormatNext]_vars

\* the text the sections were rendered from, and its lines
SuggestionChars == results.suggestions.chars
SuggestionLines == SplitLines(SuggestionChars)

\* the text is two blocks of lines that are not blank, separated by one
\* empty line, the k-th
TwoBlocksAt(k) ==
    /\ k \in 2..(Len(SuggestionLines) - 1)
    /\ SuggestionLines[k] = <<>>
    /\ \A i \in 1..Len(SuggestionLines) :
          i # k => Trim(SuggestionLines[i]) # <<>>

\* section n is rendered from the lines from..to of the text as the claim
\* says: a block that starts with a bullet is titled "Recommendations n"
\* and has one body element for each of its lines
BulletBlockKept(n, from, to) ==
    StartsWithBullet(Trim(SuggestionLines[from])) =>
        /\ sections.items[n].title = RecommendationsTitle \o Digits(n)
        /\ Len(sections.items[n].body) = to - from + 1

\* C11: a text made of two non-empty blocks separated by a blank line is
\* rendered as exactly two sections, whatever the blocks contain; a block
\* whose first line starts with a bullet gets the title "Recommendations N"
\* and keeps all of its lines as body.
C11_TwoBlocksTwoSections ==
    (sections # NoSections /\ "chars" \in DOMAIN results.suggestions) =>
        \A k \in 1..Len(SuggestionLines) :
            TwoBlocksAt(k) =>
                /\ Len(sections.items) = 2
                /\ BulletBlockKept(1, 1, k - 1)
                /\ BulletBlockKept(2, k + 1, Len(SuggestionLines))

----------------------------------------------------------------------------
(* createPromptFromLighthouseData on enumerated audits: the handler with   *)
(* its audit fetch in flight, settled by every response of PromptData,     *)
(* then building its prompt.                                               *)

\* most opportunities, and most failing checks, of an enumerated audit map
MaxPromptItems == 7

\* an audit that is a failing binary check
FailingCheck(i) ==
    [title |-> Text("Check " \o ToString(i)),
     description |-> Text("Fails"),
     scoreDisplayMode |-> Text("binary"),
     score |-> Num(0)]

\* the response with the metric audits at the positions M of MetricKeys,
\* o opportunities and d failing checks, a title and a description
PromptData(o, d, M) ==
    AuditData(
        [k \in CategoryKeys |-> [score |-> Num(SampleScore(k))]],
        SelectSeq([i \in 1..Len(MetricKeys) |->
                      [id |-> MetricKeys[i],
                       audit |-> IF i \in M
                                 THEN [title |-> Text(MetricKeys[i]),
                                       numericValue |-> Num(i * 100 * Frac + 1)]
                                 ELSE Absent]],
                  LAMBDA e : e.audit # Absent)
        \o [i \in 1..o |-> [id |-> "opportunity-" \o ToString(i),
                            audit |-> OpportunityAudit(i)]]
        \o [i \in 1..d |-> [id |-> "check-" \o ToString(i),
                            audit |-> FailingCheck(i)]]
        \o <<[id |-> "document-title",
              audit |-> [title |-> Text("Document has a title"),
                         displayValue |-> Text("Example Domain")]],
             [id |-> "meta-description",
              audit |-> [title |-> Text("Has a description"),
                         displayValue |-> Text("An example")]]>>,
        Absent)

\* the audit fetch settles with a response of PromptData
PromptAuditSettles ==
    /\ pc = "auditing"
    /\ \E o \in 0..MaxPromptItems, d \in 0..MaxPromptItems,
          M \in SUBSET (1..Len(MetricKeys)) :
             AuditResolve(Answer(TRUE, TRUE, PromptData(o, d, M)))

PromptNext ==
    \/ PromptAuditSettles
    \/ TextGenStart

SpecPrompt == ExtractInit /\ [][PromptNext]_vars

PromptBuilt == pc = "generating"

PromptHas(line) == \E i \in 1..Len(prompt) : prompt[i] = line

\* the lines of the prompt that follow the line `heading` are `lines`, in
\* this order, and then an empty line
PromptLists(heading, lines) ==
    \E h \in 1..Len(prompt) :
        /\ prompt[h] = heading
        /\ h + Len(lines) + 1 <= Len(prompt)
        /\ \A j \in 1..Len(lines) : prompt[h + j] = lines[j]
        /\ prompt[h + Len(lines) + 1] = ""

\* the prompt depends on the category score `key`: another score gives
\* another prompt
ScoreEmbedded(key) ==
    createPromptFromLighthouseData(
        [lighthouseResult EXCEPT ![key] = @ + 1], url) # prompt

\* the prompt depends on the metric `key`
MetricEmbedded(key) ==
    createPromptFromLighthouseData(
        [lighthouseResult EXCEPT !.metrics[key] = @ + Frac], url) # prompt

FirstFive(items) == SubSeq(items, 1, IF Len(items) < 5 THEN Len(items) ELSE 5)

\* the four scores as percentages, the first five opportunities and the
\* first five diagnostics in list order, the page title and description
PromptEmbedsScoresListsAndPage ==
    /\ \A key \in {"performance", "accessibility", "bestPractices", "seo"} :
          ScoreEmbedded(key)
    /\ PromptHas("- Performance: "
                 \o ToString(ScorePercent(lighthouseResult.performance)) \o "/100")
    /\ PromptHas("- SEO: "
                 \o ToString(ScorePercent(lighthouseResult.seo)) \o "/100")
    /\ LET opps == FirstFive(lighthouseResult.opportunities.items)
       IN opps # <<>> =>
             PromptLists("**Top Performance Opportunities:**",
                         [j \in 1..Len(opps) |-> OpportunityLine(opps[j])])
    /\ LET diags == FirstFive(lighthouseResult.diagnostics.items)
       IN diags # <<>> =>
             PromptLists("**Issues Detected:**",
                         [j \in 1..Len(diags) |-> DiagnosticLine(diags[j])])
    /\ PromptHas("- Title: \"" \o lighthouseResult.pageInfo.title \o "\"")
    /\ PromptHas("- Meta Description: \""
                 \o lighthouseResult.pageInfo.description \o "\"")

\* C12 as stated: the prompt embeds the four scores, all six metrics of the
\* result (the first-input-delay proxy among them), at most the first five
\* opportunities and diagnostics in list order, and the page title and
\* description.
C12_PromptEmbedsSixMetrics ==
    PromptBuilt =>
        /\ PromptEmbedsScoresListsAndPage
        /\ \A key \in DOMAIN lighthouseResult.metrics : MetricEmbedded(key)

\* C12: the prompt embeds the four scores, five of the six metrics (first
\* and largest contentful paint, cumulative layout shift, total blocking
\* time, speed index) and not the first-input-delay proxy, at most the
\* first five opportunities and diagnostics in list order, and the page
\* title and description.
C12_PromptEmbedsFiveMetrics ==
    PromptBuilt =>
        /\ PromptEmbedsScoresListsAndPage
        /\ \A key \in {"firstContentfulPaint", "largestContentfulPaint",
                       "cumulativeLayoutShift", "totalBlockingTime",
                       "speedIndex"} : MetricEmbedded(key)
        /\ ~MetricEmbedded("firstInputDelay")

C12_Witness ==
    /\ PromptBuilt
    /\ Len(lighthouseResult.opportunities.items) > 5
    /\ Len(lighthouseResult.diagnostics.items) > 5
    /\ lighthouseResult.metrics.firstInputDelay > 0
    /\ lighthouseResult.metrics.speedIndex > 0
    /\ PromptHas("- Largest Contentful Paint: 201ms")
    /\ PromptHas(OpportunityLine(lighthouseResult.opportunities.items[5]))
    /\ ~PromptHas(OpportunityLine(lighthouseResult.opportunities.items[6]))

----------------------------------------------------------------------------
(* Analysis component: handleSubmit.  The code of handleSubmit between two *)
(* awaits runs without interruption, and React 18 commits the state        *)
(* updates of such a run in one render: Submit is the click up to `await   *)
(* fetch`, FetchSettles the run up to `await response.json()`, and         *)
(* JsonSettles the rest.  The request of a submit is handled by POST       *)
(* /api/audit, whose state is the handler variables.                       *)

\* texts of the URL input: empty, two that new URL rejects, two it accepts
InputUrls ==
    {<<>>, <<"w">>, <<"w", "s", ":">>, <<"w", ":">>, ExtractUrl.chars}

\* a value thrown or rejected with
ErrorOf(message) == [isError |-> TRUE, message |-> message]


\* a body that is not JSON
Unparseable == [unparseable |-> TRUE]

\* responses of a gateway in front of the handler
GatewayResponses ==
    {[status |-> 502, body |-> Unparseable],
     [status |-> 500, body |-> [message |-> "Internal Server Error"]],
     [status |-> 500, body |-> Null]}

\* response.ok
ResponseOk(r) == r.status \in 200..299

\* line 46: new Error(data.error || "Failed to analyze website")
NotOkError(data) ==
    IF data = Null
    THEN ErrorOf("Cannot read properties of null (reading 'error')")
    ELSE IF "error" \in DOMAIN data /\ data.error # ""
    THEN ErrorOf(data.error)
    ELSE ErrorOf("Failed to analyze website")

\* line 51: err instanceof Error ? err.message : "An error occurred"
CaughtMessage(err) == IF err.isError THEN err.message ELSE "An error occurred"

\* the component is mounted and the server has no request
AnalysisInit ==
    /\ pc = "idle"
    /\ request = [body |-> NoBody]
    /\ url = Undefined
    /\ auditCalls = 0
    /\ textgenCalls = 0
    /\ auditInFlight = FALSE
    /\ textgenInFlight = FALSE
    /\ auditResponse = NoAnswer
    /\ textgenResponse = NoAnswer
    /\ lighthouseResult = NoResult
    /\ prompt = <<>>
    /\ response = NoResponse
    /\ scoreCards = NoCards
    /\ apiKey \in ApiKeys
    /\ ComponentMounted

\* line 231: onChange of the input, which is disabled while loading
EditUrl ==
    /\ ~loading
    /\ \E s \in InputUrls : inputUrl' = s
    /\ UNCHANGED <<handlerVars, scoreCards, loading, results, error, awaiting,
                   fetched, sections>>

\* POST /api/audit receives the body {url}: a new run of the handler
Receive(body) ==
    /\ pc' = "received"
    /\ request' = [body |-> body]
    /\ url' = Undefined
    /\ auditCalls' = 0
    /\ textgenCalls' = 0
    /\ auditInFlight' = FALSE
    /\ textgenInFlight' = FALSE
    /\ auditResponse' = NoAnswer
    /\ textgenResponse' = NoAnswer
    /\ lighthouseResult' = NoResult
    /\ prompt' = <<>>
    /\ response' = NoResponse
    /\ UNCHANGED apiKey

\* handleSubmit up to its fetch without `setResults(null)`
SubmitKeepingResults ==
    /\ ~(loading \/ inputUrl = <<>>)
    /\ loading' = TRUE
    /\ error' = ""
    /\ awaiting' = "fetch"
    /\ Receive([url |-> Chars(inputUrl)])
    /\ UNCHANGED <<inputUrl, results, fetched, sections, scoreCards>>

\* lines 236-238 and 27-41: a click on the button, which is disabled while
\* loading or without a url, and handleSubmit up to `await fetch`
Submit ==
    /\ ~(loading \/ inputUrl = <<>>)
    /\ IF inputUrl = <<>>
       THEN UNCHANGED <<handlerVars, loading, error, results, awaiting,
                        sections>>
       ELSE /\ loading' = TRUE
            /\ error' = ""
            /\ results' = Null
            /\ sections' = NoSections
            /\ awaiting' = "fetch"
            /\ Receive([url |-> Chars(inputUrl)])
    /\ UNCHANGED <<inputUrl, fetched, scoreCards>>

\* lines 50-54: catch and finally
Fail(err) ==
    /\ error' = CaughtMessage(err)
    /\ loading' = FALSE
    /\ awaiting' = "none"
    /\ UNCHANGED results

\* lines 35-43: the fetch settles: it rejects, or it resolves with the
\* response of the handler or of a gateway, and response.json() is awaited
FetchSettles ==
    /\ awaiting = "fetch"
    /\ \/ /\ Fail(ErrorOf("Failed to fetch"))
          /\ UNCHANGED fetched
       \/ /\ pc = "responded"
          /\ fetched' = response
          /\ awaiting' = "json"
          /\ UNCHANGED <<loading, results, error>>
       \/ /\ \E r \in GatewayResponses : fetched' = r
          /\ awaiting' = "json"
          /\ UNCHANGED <<loading, results, error>>
    /\ UNCHANGED <<handlerVars, scoreCards, inputUrl, sections>>

\* lines 43-54: response.json() settles
JsonSettles ==
    /\ awaiting = "json"
    /\ IF fetched.body = Unparseable
       THEN Fail(ErrorOf("Unexpected token '<' is not valid JSON"))
       ELSE IF ~ResponseOk(fetched)
       THEN Fail(NotOkError(fetched.body))
       ELSE /\ results' = fetched.body
            /\ loading' = FALSE
            /\ awaiting' = "none"
            /\ UNCHANGED error
    /\ UNCHANGED <<handlerVars, scoreCards, inputUrl, fetched, sections>>

\* the audit fetch of the handler settles
AnalysisAuditSettles ==
    /\ pc = "auditing"
    /\ \E r \in {NetError,
                 Answer(TRUE, TRUE, SampleData(89, 89, 100, LcpLimit * Frac,
                                               TbtLimit * Frac))} :
          AuditResolve(r)

\* the text-generation fetch of the handler settles
AnalysisTextGenSettles ==
    /\ pc = "generating"
    /\ \E r \in {NetError,
                 ContentAnswer(Chars(<<"#", " ", "a", "\n", "\n", "-", " ",
                                       "a">>))} :
          TextGenResolve(r)

AnalysisNext ==
    \/ EditUrl
    \/ Submit
    \/ Validate
    \/ AuditStart
    \/ AnalysisAuditSettles
    \/ TextGenStart
    \/ AnalysisTextGenSettles
    \/ FetchSettles
    \/ JsonSettles
    \/ RenderSuggestions

SpecAnalysis == AnalysisInit /\ [][AnalysisNext]_vars

\* while loading nothing is shown and no submit can start
LoadingShowsNothing ==
    loading =>
        /\ results = Null
        /\ error = ""
        /\ ~ENABLED Submit

\* loading exactly while handleSubmit awaits its one request
LoadingWhileAwaiting == loading <=> awaiting # "none"

\* results are the whole body of the response the handler has returned
ResultsAreTheResponse ==
    results # Null =>
        /\ ~loading
        /\ pc = "responded"
        /\ response.status = 200
        /\ results = response.body
        /\ DOMAIN results = ResultFields

\* sections are rendered from results only
RenderedFromResults == sections # NoSections => results # Null

\* a request is started only when none is in flight
StartsWhenIdle ==
    (awaiting' = "fetch" /\ awaiting # "fetch") =>
        (awaiting = "none" /\ ~loading)

\* a submit that completes ends loading and sets exactly one of results,
\* on a 2xx response, and a non-empty error, on any other response or a
\* thrown exception
CompletesWithOneOutcome ==
    (awaiting # "none" /\ awaiting' = "none") =>
        /\ loading /\ ~loading'
        /\ (results' # Null) # (error' # "")
        /\ (results' # Null) <=> (awaiting = "json" /\ fetched.status \in 200..299
                                  /\ fetched.body # Unparseable)
        /\ results' # Null => results' = fetched.body

\* C13: over any sequence of URL edits, submits and server responses:
\* while loading, results is null, error is empty and a new submit is
\* disabled, so at most one request is in flight; a submit that completes
\* ends loading and sets exactly one of results (2xx response) and a
\* non-empty error (any other response, or an exception); results are
\* rendered only after the whole response has arrived.
C13_LoadingResultsError ==
    /\ [](LoadingShowsNothing /\ LoadingWhileAwaiting
          /\ ResultsAreTheResponse /\ RenderedFromResults)
    /\ [][StartsWhenIdle /\ CompletesWithOneOutcome]_vars

\* a second submit has completed with results, after one that failed; the
\* results are rendered and the url has been edited since
C13_Witness ==
    /\ ~loading
    /\ results # Null
    /\ error = ""
    /\ sections # NoSections
    /\ Len(sections.items) = 2
    /\ Chars(inputUrl) # results.url
    /\ textgenCalls = 1

====
